---- MODULE Spec2Model ----
(***************************************************************************)
(* ShellDeck: the Application Root's state (hosts, groups, tabs, the       *)
(* visibility flags, the Host Editor flags) and its handlers, the Host     *)
(* Editor's form state and handlers, the Sidebar's search state and lists, *)
(* the Homebar's buttons and the Terminal View's line buffer.  One action  *)
(* per handler; a handler's argument is drawn from what the rendered       *)
(* components pass to it.  Spec composes all handlers; SpecTabs, SpecForm, *)
(* SpecPort, SpecTags, SpecSearch, SpecBrowse, SpecSessions, SpecHomebar,  *)
(* SpecRetarget, SpecGroups, SpecTerminal and SpecStatus are the parts of  *)
(* it that are model-checked, each a set of behaviours of Spec.            *)
(***************************************************************************)
EXTENDS Integers, Sequences, FiniteSets, TLC

VARIABLES
    clock,          \* the reading Date.now() returns
    hosts,          \* App state: Host[]
    tabs,           \* App state: Tab[]
    isEditorOpen,   \* App state: the Host Editor is mounted
    editingHost,    \* App state: Host | null
    formData,       \* HostEditor state (meaningful while the editor is mounted)
    groups,         \* App state: Group[]
    isSidebarOpen,  \* App state: the Sidebar is expanded
    isHomebarOpen,  \* App state: the Homebar is rendered
    searchQuery,    \* Sidebar state: the text of the search input
    formOrigin,     \* HostEditor state: the position in hosts of the object
                    \* formData is (useState(host)), 0 once the form state
                    \* has been set anew or was the create defaults
    lines,          \* Terminal state: the line buffer, NoLines when unmounted
    saves,          \* history: how many times handleSaveHost has run
    last            \* history: the handler that ran last and the branch it took

vars == <<clock, hosts, tabs, isEditorOpen, editingHost, formData, groups,
          isSidebarOpen, isHomebarOpen, searchQuery, formOrigin, lines, saves,
          last>>

\* The state the Sidebar and the Homebar are rendered from, besides hosts.
chrome == <<groups, isSidebarOpen, isHomebarOpen, searchQuery>>

-----------------------------------------------------------------------------
(* Bounds of the model.                                                    *)

\* Date.now() at startup; any value whose decimal form differs from the
\* seeded identifiers' numbers (1..5) serves.
ClockBase == 1000
\* How many times the millisecond clock advances.
MaxTicks == 1
\* How many tabs may be open at once.
MaxTabs == 3
\* How many hosts may be created on top of the seeded ones.
MaxNewHosts == 1
\* How many times the save operation may run.
MaxSaves == 1
\* How many times the save operation may run in a series of saves.
MaxSeries == 3

-----------------------------------------------------------------------------
(* Values.                                                                 *)

\* A field that is absent from a JavaScript object.
Undefined == "undefined"

\* editingHost = null
Null == [id |-> "null"]

\* A seeded host has no tags field; tags is only read through ?. (tags?.some,
\* tags?.join), where the absent list behaves as the empty one.
Host(id, name, hostname, user, port, groupId, status) ==
    [id |-> id, name |-> name, hostname |-> hostname, user |-> user,
     port |-> port, groupId |-> groupId, status |-> status, tags |-> <<>>,
     identityFile |-> Undefined, extraArgs |-> Undefined]

INITIAL_GROUPS ==
    << [id |-> "g1", name |-> "Production", isExpanded |-> TRUE],
       [id |-> "g2", name |-> "Staging",    isExpanded |-> TRUE],
       [id |-> "g3", name |-> "Lab",        isExpanded |-> FALSE] >>

INITIAL_HOSTS ==
    << Host("h1", "web-prod-01",  "10.0.1.10",     "deploy", 22,   "g1", "connected"),
       Host("h2", "db-prod-01",   "10.0.1.20",     "admin",  2222, "g1", "idle"),
       Host("h3", "web-stage-01", "10.0.2.10",     "deploy", 22,   "g2", "idle"),
       Host("h4", "labvm01",      "192.168.1.100", "root",   22,   "g3", "error"),
       Host("h5", "router-home",  "192.168.0.1",   "admin",  22,   Undefined, "idle") >>

INITIAL_TABS == << [id |-> "t1", hostId |-> "h1", isActive |-> TRUE] >>

\* `t${Date.now()}` and `h${Date.now()}`
TabIdAt(now) == "t" \o ToString(now)
HostIdAt(now) == "h" \o ToString(now)

-----------------------------------------------------------------------------
(* Array helpers, as the JavaScript array methods compute them             *)
(* (arr.filter is SelectSeq, arr.map a function over DOMAIN arr).          *)

\* arr.find(...): given the indices of the elements that pass the test, the
\* index of the first of them, or 0 when there is none
FirstOf(indices) ==
    IF indices = {} THEN 0
    ELSE CHOOSE i \in indices : \A j \in indices : i <= j

-----------------------------------------------------------------------------
(* Derived values of the Application Root.                                 *)

HostIds == {hosts[i].id : i \in DOMAIN hosts}
TabIds == {tabs[i].id : i \in DOMAIN tabs}

\* const activeTab = tabs.find(t => t.isActive): its index, 0 when there is none
activeTab == FirstOf({i \in DOMAIN tabs : tabs[i].isActive})

\* const activeHost = activeTab ? hosts.find(h => h.id === activeTab.hostId) : null
\* (its index in hosts, 0 when there is none)
activeHost ==
    IF activeTab = 0 THEN 0
    ELSE FirstOf({i \in DOMAIN hosts : hosts[i].id = tabs[activeTab].hostId})

\* The tabs the Tabs Strip renders: those whose host is found.
RenderedTabIds ==
    {tabs[i].id : i \in {j \in DOMAIN tabs : tabs[j].hostId \in HostIds}}

\* The workspace pane: the Terminal View when activeHost is set, else the
\* empty-state panel.
ShowsTerminal == activeHost # 0
ShowsEmptyState == activeHost = 0

\* The Terminal View's state while it is not mounted.
NoLines == [connecting |-> <<>>, asOf |-> 0, prompt |-> <<>>]

\* The lines the Terminal's effect sets, by what it interpolates: the host's
\* user, hostname and port, the time it runs at, the host's user and name.
BuildLines(host, now) ==
    [connecting |-> <<host.user, host.hostname, host.port>>,
     asOf |-> now,
     prompt |-> <<host.user, host.name>>]

\* activeHost as the render after a handler computes it, from the hosts and
\* tabs the handler has set.
ActiveHostOf(hs, ts) ==
    LET t == FirstOf({i \in DOMAIN ts : ts[i].isActive})
    IN  IF t = 0 THEN 0
        ELSE FirstOf({i \in DOMAIN hs : hs[i].id = ts[t].hostId})

\* The Terminal's effect runs when the Terminal is mounted and when its host
\* prop is another object than at the render before: useEffect(..., [host]).
\* hosts.map keeps the objects it does not replace, so the object at a
\* position is another one exactly where the handler put one (replaced).
EffectRuns(before, after, replaced) ==
    /\ after # 0
    /\ before = 0 \/ after # before \/ after \in replaced

\* The Terminal after the handler's state updates (hs, ts) are rendered.
Render(hs, ts, replaced) ==
    lines' = LET after == ActiveHostOf(hs, ts)
             IN  IF after = 0 THEN NoLines
                 ELSE IF EffectRuns(activeHost, after, replaced)
                      THEN BuildLines(hs[after], clock)
                      ELSE lines

-----------------------------------------------------------------------------
(* Tab and host transitions of the Application Root, as functions of the   *)
(* state the handler closes over.                                          *)

\* ConnectTabs without the look for a tab that targets the host.
ConnectTabsAlwaysAppends(ts, hostId, now) ==
    Append([i \in DOMAIN ts |-> [ts[i] EXCEPT !.isActive = FALSE]],
           [id |-> TabIdAt(now), hostId |-> hostId, isActive |-> TRUE])

\* ConnectTabs with the new tab appended but the open tabs left as they were.
ConnectTabsKeepsActive(ts, hostId, now) ==
    LET existingTab == FirstOf({i \in DOMAIN ts : ts[i].hostId = hostId}) IN
    IF existingTab # 0
    THEN [i \in DOMAIN ts |-> [ts[i] EXCEPT !.isActive = (ts[i].id = ts[existingTab].id)]]
    ELSE Append(ts, [id |-> TabIdAt(now), hostId |-> hostId, isActive |-> TRUE])

\* handleConnect: the tab list it sets
ConnectTabs(ts, hostId, now) ==
    LET existingTab == FirstOf({i \in DOMAIN ts : ts[i].hostId = hostId}) IN
    IF existingTab # 0
    THEN [i \in DOMAIN ts |-> [ts[i] EXCEPT !.isActive = (ts[i].id = ts[existingTab].id)]]
    ELSE Append([i \in DOMAIN ts |-> [ts[i] EXCEPT !.isActive = FALSE]],
                [id |-> TabIdAt(now), hostId |-> hostId, isActive |-> TRUE])

\* ConnectHosts connecting only a host that is idle.
ConnectHostsIdleOnly(hs, hostId) ==
    [i \in DOMAIN hs |->
        IF hs[i].id = hostId /\ hs[i].status = "idle"
        THEN [hs[i] EXCEPT !.status = "connected"]
        ELSE hs[i]]

\* ConnectHosts with the connection refused on a port other than 22.
ConnectHostsRefused(hs, hostId) ==
    [i \in DOMAIN hs |->
        IF hs[i].id = hostId
        THEN [hs[i] EXCEPT !.status = IF hs[i].port = 22 THEN "connected" ELSE "error"]
        ELSE hs[i]]

\* handleConnect: the host list it sets ("simulate connection")
ConnectHosts(hs, hostId) ==
    [i \in DOMAIN hs |->
        IF hs[i].id = hostId THEN [hs[i] EXCEPT !.status = "connected"] ELSE hs[i]]

\* handleCloseTab: the tab list it sets
CloseTabs(ts, tabId) ==
    LET newTabs == SelectSeq(ts, LAMBDA t : t.id # tabId)
        found == FirstOf({i \in DOMAIN ts : ts[i].id = tabId})
    IN  IF Len(newTabs) > 0 /\ found # 0 /\ ts[found].isActive
        THEN [newTabs EXCEPT ![Len(newTabs)].isActive = TRUE]
        ELSE newTabs

\* handleSelectTab: the tab list it sets
SelectTabs(ts, tabId) ==
    [i \in DOMAIN ts |-> [ts[i] EXCEPT !.isActive = (ts[i].id = tabId)]]

-----------------------------------------------------------------------------
(* The port field.  Its text is a sequence of one-character strings, so    *)
(* that parseInt can be computed on it; NaN is the empty tuple and a       *)
(* number n the tuple <<n>>.                                               *)

DecDigits == <<"0", "1", "2", "3", "4", "5", "6", "7", "8", "9">>
HexDigits == DecDigits \o <<"a", "b", "c", "d", "e", "f">>
HexUpper == <<"A", "B", "C", "D", "E", "F">>

IsDigit(c, radix) ==
    \/ \E i \in 1..radix : HexDigits[i] = c
    \/ radix = 16 /\ \E i \in 1..6 : HexUpper[i] = c

DigitValue(c) ==
    IF \E i \in 1..16 : HexDigits[i] = c
    THEN (CHOOSE i \in 1..16 : HexDigits[i] = c) - 1
    ELSE (CHOOSE i \in 1..6 : HexUpper[i] = c) + 9

\* The length of the longest prefix of s made of digits of the radix.
RECURSIVE DigitsPrefixLen(_, _)
DigitsPrefixLen(s, radix) ==
    IF s # <<>> /\ IsDigit(Head(s), radix)
    THEN 1 + DigitsPrefixLen(Tail(s), radix)
    ELSE 0

\* The number a non-empty sequence of digits denotes.
RECURSIVE DigitsValue(_, _)
DigitsValue(s, radix) ==
    IF s = <<>> THEN 0
    ELSE DigitsValue(SubSeq(s, 1, Len(s) - 1), radix) * radix + DigitValue(s[Len(s)])

RECURSIVE TrimStart(_)
TrimStart(s) == IF s # <<>> /\ Head(s) = " " THEN TrimStart(Tail(s)) ELSE s

\* parseInt(value), no radix given: leading white space skipped, an optional
\* sign, an optional 0x prefix, then the longest run of digits; NaN when
\* that run is empty.
ParseInt(value) ==
    LET t == TrimStart(value)
        signed == t # <<>> /\ Head(t) \in {"+", "-"}
        sign == IF signed /\ Head(t) = "-" THEN -1 ELSE 1
        u == IF signed THEN Tail(t) ELSE t
        hex == Len(u) >= 2 /\ u[1] = "0" /\ u[2] \in {"x", "X"}
        radix == IF hex THEN 16 ELSE 10
        v == IF hex THEN SubSeq(u, 3, Len(u)) ELSE u
        n == DigitsPrefixLen(v, radix)
    IN  IF n = 0 THEN <<>> ELSE << sign * DigitsValue(SubSeq(v, 1, n), radix) >>

\* PortOf with 0 as the fallback.
PortOfZeroFallback(value) ==
    LET n == ParseInt(value) IN
    IF n = <<>> THEN 0 ELSE n[1]

\* name === 'port' ? parseInt(value) || 22 : value   (NaN and 0 are falsy)
PortOf(value) ==
    LET n == ParseInt(value) IN
    IF n = <<>> \/ n[1] = 0 THEN 22 ELSE n[1]

\* A valid floating-point number: an optional "-", digits and/or "." digits,
\* an optional exponent (e or E, an optional sign, digits), nothing else.
IsValidFloat(s) ==
    LET a == IF s # <<>> /\ Head(s) = "-" THEN Tail(s) ELSE s
        k == DigitsPrefixLen(a, 10)
        b == SubSeq(a, k + 1, Len(a))
        dot == b # <<>> /\ Head(b) = "."
        f == IF dot THEN DigitsPrefixLen(Tail(b), 10) ELSE 0
        c == IF dot THEN SubSeq(b, f + 2, Len(b)) ELSE b
        exp == c # <<>> /\ Head(c) \in {"e", "E"}
        d == IF exp THEN Tail(c) ELSE c
        g == IF exp /\ d # <<>> /\ Head(d) \in {"+", "-"} THEN Tail(d) ELSE d
        m == DigitsPrefixLen(g, 10)
    IN  /\ (k > 0 \/ dot)
        /\ (dot => f > 0)
        /\ IF exp THEN m > 0 /\ m = Len(g) ELSE c = <<>>

\* <input type="number">: e.target.value is the typed text when that is a
\* valid floating-point number, and the empty string otherwise.
NumberInputValue(typed) == IF IsValidFloat(typed) THEN typed ELSE <<>>

-----------------------------------------------------------------------------
(* Strings, as the JavaScript string methods compute them.  A character is *)
(* a string of length one; SubSeq(s, i, i) is s.charAt(i - 1).             *)

WhiteSpace == {" ", "\t", "\n"}
UpperCase == "ABCDEFGHIJKLMNOPQRSTUVWXYZ"
LowerCase == "abcdefghijklmnopqrstuvwxyz"

\* s.trim()
RECURSIVE TrimLeft(_)
TrimLeft(s) == IF s # "" /\ Head(s) \in WhiteSpace THEN TrimLeft(Tail(s)) ELSE s

RECURSIVE TrimRight(_)
TrimRight(s) ==
    IF s # "" /\ SubSeq(s, Len(s), Len(s)) \in WhiteSpace
    THEN TrimRight(SubSeq(s, 1, Len(s) - 1))
    ELSE s

Trim(s) == TrimRight(TrimLeft(s))

\* s.split(sep) for a separator of one character: the pieces between the
\* separators, in order (one piece, s itself, when there is no separator)
RECURSIVE Split(_, _)
Split(s, sep) ==
    LET at == {i \in 1..Len(s) : SubSeq(s, i, i) = sep} IN
    IF at = {} THEN <<s>>
    ELSE LET k == CHOOSE i \in at : \A j \in at : i <= j
         IN  <<SubSeq(s, 1, k - 1)>> \o Split(SubSeq(s, k + 1, Len(s)), sep)

\* s.toLowerCase(): the lower-case letter of every upper-case letter
LowerOf ==
    [c \in {SubSeq(UpperCase, i, i) : i \in 1..26} |->
        LET i == CHOOSE j \in 1..26 : SubSeq(UpperCase, j, j) = c
        IN  SubSeq(LowerCase, i, i)]

LowerChar(c) == IF c \in DOMAIN LowerOf THEN LowerOf[c] ELSE c

RECURSIVE ToLowerCase(_)
ToLowerCase(s) ==
    IF s = "" THEN "" ELSE LowerChar(Head(s)) \o ToLowerCase(Tail(s))

\* s.includes(q)
Includes(s, q) ==
    \E i \in 0..(Len(s) - Len(q)) : SubSeq(s, i + 1, i + Len(q)) = q

-----------------------------------------------------------------------------
(* The tags field of the Host Editor.                                      *)

\* ParseTags without the trim.
ParseTagsUntrimmed(text) ==
    SelectSeq(Split(text, ","), LAMBDA t : t # "")

\* e.target.value.split(',').map(t => t.trim()).filter(Boolean)
ParseTags(text) ==
    LET pieces == Split(text, ",") IN
    SelectSeq([i \in DOMAIN pieces |-> Trim(pieces[i])], LAMBDA t : t # "")

\* The tags input's onChange: setFormData({...formData, tags: ...})
TagsChange(fd, text) == [fd EXCEPT !.tags = ParseTags(text)]

-----------------------------------------------------------------------------
(* The Sidebar.  A list of hosts it renders is the sequence of their       *)
(* positions in hosts, in rendering order.                                 *)

\* Matches with the query compared as typed.
MatchesCaseSensitive(h, q) ==
    \/ Includes(ToLowerCase(h.name), q)
    \/ Includes(ToLowerCase(h.hostname), q)
    \/ \E n \in DOMAIN h.tags : Includes(ToLowerCase(h.tags[n]), q)

\* The test of filteredHosts
Matches(h, q) ==
    \/ Includes(ToLowerCase(h.name), ToLowerCase(q))
    \/ Includes(ToLowerCase(h.hostname), ToLowerCase(q))
    \/ \E n \in DOMAIN h.tags : Includes(ToLowerCase(h.tags[n]), ToLowerCase(q))

Indices(hs) == [i \in 1..Len(hs) |-> i]

\* const filteredHosts = hosts.filter(...)
FilteredHosts(hs, q) == SelectSeq(Indices(hs), LAMBDA i : Matches(hs[i], q))

\* hosts.filter(h => h.groupId === group.id)
GroupHosts(hs, group) == SelectSeq(Indices(hs), LAMBDA i : hs[i].groupId = group.id)

\* UngroupedHosts with only the absent groupId taken as no group.
UngroupedHostsAbsentOnly(hs) ==
    SelectSeq(Indices(hs), LAMBDA i : hs[i].groupId = Undefined)

\* hosts.filter(h => !h.groupId): undefined and the empty string are falsy
UngroupedHosts(hs) ==
    SelectSeq(Indices(hs), LAMBDA i : hs[i].groupId \in {Undefined, ""})

\* The flat list of the search branch (searchQuery ? ... : ...), rendered
\* when the Sidebar is expanded.
SearchList ==
    IF isSidebarOpen /\ searchQuery # ""
    THEN FilteredHosts(hosts, searchQuery)
    ELSE <<>>

\* filteredHosts.length === 0 && <div>No hosts found.</div>
ShowsNoHostsFound ==
    isSidebarOpen /\ searchQuery # "" /\ Len(FilteredHosts(hosts, searchQuery)) = 0

\* The hosts listed under the k-th group row of the browse branch.
GroupList(k) ==
    IF isSidebarOpen /\ searchQuery = "" /\ groups[k].isExpanded
    THEN GroupHosts(hosts, groups[k])
    ELSE <<>>

\* The trailing section of the browse branch.
UngroupedList ==
    IF isSidebarOpen /\ searchQuery = "" THEN UngroupedHosts(hosts) ELSE <<>>

\* ToggleGroups as an accordion: expanding a group collapses the others.
ToggleGroupsAccordion(gs, groupId) ==
    [k \in DOMAIN gs |->
        [gs[k] EXCEPT !.isExpanded = gs[k].id = groupId /\ ~gs[k].isExpanded]]

\* handleToggleGroup: the group list it sets
ToggleGroups(gs, groupId) ==
    [k \in DOMAIN gs |->
        IF gs[k].id = groupId
        THEN [gs[k] EXCEPT !.isExpanded = ~gs[k].isExpanded]
        ELSE gs[k]]

-----------------------------------------------------------------------------
(* The Homebar.                                                            *)

\* The activeHost prop: the host record, null when there is none.
HomebarHost == IF activeHost = 0 THEN Null ELSE hosts[activeHost]

\* The disabled prop of the Connect, Disconnect, Reconnect and Edit buttons.
ConnectDisabled(h) == h = Null \/ h.status = "connected"

\* DisconnectDisabled with the test of the Connect button.
DisconnectDisabledAsConnect(h) == h = Null \/ h.status = "connected"

DisconnectDisabled(h) == h = Null \/ h.status # "connected"
ReconnectDisabled(h) == h = Null
EditDisabled(h) == h = Null

\* A button of the rendered Homebar that is not disabled.
ConnectEnabled == isHomebarOpen /\ ~ConnectDisabled(HomebarHost)
DisconnectEnabled == isHomebarOpen /\ ~DisconnectDisabled(HomebarHost)
ReconnectEnabled == isHomebarOpen /\ ~ReconnectDisabled(HomebarHost)
EditEnabled == isHomebarOpen /\ ~EditDisabled(HomebarHost)

-----------------------------------------------------------------------------
(* The Host Editor and the save operation.                                 *)

\* useState(host || {...}): the form's state when the editor mounts
CreateDefaults ==
    [id |-> Undefined, name |-> "", hostname |-> "", user |-> "root",
     port |-> 22, groupId |-> "", status |-> Undefined, tags |-> <<>>,
     identityFile |-> "", extraArgs |-> ""]

\* InitialForm falling back to the host edited before when given none.
InitialFormFromLastTarget(host) ==
    IF host # Null THEN host
    ELSE IF editingHost # Null THEN editingHost ELSE CreateDefaults

InitialForm(host) == IF host = Null THEN CreateDefaults ELSE host

\* Submittable with only the name required.
SubmittableNameOnly(fd) == fd.name \notin {"", Undefined}

\* handleSubmit's early return: if (!formData.name || !formData.hostname) return
Submittable(fd) ==
    /\ fd.name \notin {"", Undefined}
    /\ fd.hostname \notin {"", Undefined}

\* SaveHosts that only replaces: nothing is appended for a new host.
SaveHostsEditOnly(hs, editing, host, now) ==
    [i \in DOMAIN hs |-> IF editing # Null /\ hs[i].id = host.id THEN host ELSE hs[i]]

\* SaveHosts giving the saved host a generated id in both branches.
SaveHostsRenames(hs, editing, host, now) ==
    IF editing # Null
    THEN [i \in DOMAIN hs |->
             IF hs[i].id = host.id THEN [host EXCEPT !.id = HostIdAt(now)] ELSE hs[i]]
    ELSE Append(hs, [host EXCEPT !.id = HostIdAt(now), !.status = "idle"])

\* handleSaveHost: the host list it sets
SaveHosts(hs, editing, host, now) ==
    IF editing # Null
    THEN [i \in DOMAIN hs |-> IF hs[i].id = host.id THEN host ELSE hs[i]]
    ELSE Append(hs, [host EXCEPT !.id = HostIdAt(now), !.status = "idle"])

\* handleChange: the form state it sets.  For the port field, value is the
\* number input's value.
ChangeForm(fd, name, value) ==
    [fd EXCEPT ![name] = IF name = "port" THEN PortOf(value) ELSE value]

-----------------------------------------------------------------------------
(* What the user can enter.                                                *)

\* Texts typed into the Label and Hostname / IP fields.
NameInputs == {"", "edge-01"}
HostnameInputs == {"", "10.0.3.5"}

\* Texts typed into the Sidebar's search input.
SearchInputs == {"", "lab", "WEB", " ", "zz"}

\* Texts the Tags field is edited to.
TagsInputs == {"", "prod, web,  linux ,", ",, Lab", "db\t, x y "}

\* Texts typed into the Port field.
PortInputs ==
    { <<>>,
      <<"0">>,
      <<"-", "5">>,
      <<"1", "2", "a", "b", "c">>,
      <<"a", "b", "c">>,
      <<"8", "0">> }

-----------------------------------------------------------------------------
(* Initial state: the useState initialisers of App.                        *)

Did(op, hit) == [op |-> op, hit |-> hit]

Init ==
    /\ clock = ClockBase
    /\ hosts = INITIAL_HOSTS
    /\ tabs = INITIAL_TABS
    /\ isEditorOpen = FALSE
    /\ editingHost = Null
    /\ formData = CreateDefaults
    /\ groups = INITIAL_GROUPS
    /\ isSidebarOpen = TRUE
    /\ isHomebarOpen = TRUE
    /\ searchQuery = ""
    /\ formOrigin = 0
    /\ lines = BuildLines(INITIAL_HOSTS[1], ClockBase)
    /\ saves = 0
    /\ last = Did("init", FALSE)

-----------------------------------------------------------------------------
(* Actions: one per handler.                                               *)

\* Time passes: Date.now() returns a later reading.
Tick ==
    /\ clock < ClockBase + MaxTicks
    /\ clock' = clock + 1
    /\ last' = Did("tick", FALSE)
    /\ UNCHANGED <<hosts, tabs, isEditorOpen, editingHost, formData, saves>>
    /\ UNCHANGED <<formOrigin, lines>>
    /\ UNCHANGED chrome

HandleConnect(hostId) ==
    /\ (\E i \in DOMAIN tabs : tabs[i].hostId = hostId) \/ Len(tabs) < MaxTabs
    /\ tabs' = ConnectTabs(tabs, hostId, clock)
    /\ hosts' = ConnectHosts(hosts, hostId)
    /\ last' = Did("connect", \E i \in DOMAIN tabs : tabs[i].hostId = hostId)
    /\ formOrigin' = IF formOrigin # 0 /\ hosts[formOrigin].id = hostId THEN 0 ELSE formOrigin
    /\ Render(hosts', tabs', {i \in DOMAIN hosts : hosts[i].id = hostId})
    /\ UNCHANGED <<clock, isEditorOpen, editingHost, formData, saves>>
    /\ UNCHANGED chrome

HandleCloseTab(tabId) ==
    /\ tabs' = CloseTabs(tabs, tabId)
    /\ last' = Did("closeTab", \E i \in DOMAIN tabs : tabs[i].id = tabId)
    /\ UNCHANGED <<clock, hosts, isEditorOpen, editingHost, formData, formOrigin, saves>>
    /\ Render(hosts, tabs', {})
    /\ UNCHANGED chrome

HandleSelectTab(tabId) ==
    /\ tabs' = SelectTabs(tabs, tabId)
    /\ last' = Did("selectTab", \E i \in DOMAIN tabs : tabs[i].id = tabId)
    /\ UNCHANGED <<clock, hosts, isEditorOpen, editingHost, formData, formOrigin, saves>>
    /\ Render(hosts, tabs', {})
    /\ UNCHANGED chrome

\* The editor mounts when isEditorOpen turns true, and only then is the
\* form's state initialised from the host it is given.
HandleNewHost ==
    /\ editingHost' = Null
    /\ isEditorOpen' = TRUE
    /\ formData' = IF isEditorOpen THEN formData ELSE InitialForm(Null)
    /\ formOrigin' = IF isEditorOpen THEN formOrigin ELSE 0
    /\ last' = Did("newHost", FALSE)
    /\ UNCHANGED <<clock, hosts, tabs, lines, saves>>
    /\ UNCHANGED chrome

HandleEditHost(i) ==
    /\ editingHost' = hosts[i]
    /\ isEditorOpen' = TRUE
    /\ formData' = IF isEditorOpen THEN formData ELSE InitialForm(hosts[i])
    /\ formOrigin' = IF isEditorOpen THEN formOrigin ELSE i
    /\ last' = Did("editHost", FALSE)
    /\ UNCHANGED <<clock, hosts, tabs, lines, saves>>
    /\ UNCHANGED chrome

HandleChange(name, value, valid) ==
    /\ isEditorOpen
    /\ formData' = ChangeForm(formData, name, value)
    /\ formOrigin' = 0
    /\ last' = Did("change", valid)
    /\ UNCHANGED <<clock, hosts, tabs, isEditorOpen, editingHost, lines, saves>>
    /\ UNCHANGED chrome

HandleTagsChange(text) ==
    /\ isEditorOpen
    /\ formData' = TagsChange(formData, text)
    /\ formOrigin' = 0
    /\ last' = Did("tags", ParseTags(text) # <<>>)
    /\ UNCHANGED <<clock, hosts, tabs, isEditorOpen, editingHost, lines, saves>>
    /\ UNCHANGED chrome

\* The form's submit: handleSubmit, and through onSave handleSaveHost.
HandleSubmit ==
    /\ isEditorOpen
    /\ IF Submittable(formData)
       THEN /\ hosts' = SaveHosts(hosts, editingHost, formData, clock)
            /\ isEditorOpen' = FALSE
            /\ formData' = CreateDefaults
            /\ formOrigin' = 0
            /\ saves' = saves + 1
       ELSE UNCHANGED <<hosts, isEditorOpen, formData, formOrigin, saves>>
    /\ last' = Did("submit", Submittable(formData))
    /\ UNCHANGED <<clock, tabs, editingHost>>
    /\ Render(hosts', tabs,
              IF editingHost = Null \/ ~Submittable(formData) THEN {}
              ELSE {i \in DOMAIN hosts : hosts[i].id = formData.id /\ i # formOrigin})
    /\ UNCHANGED chrome

\* Cancel and the close control: onClose={() => setIsEditorOpen(false)}
OnClose ==
    /\ isEditorOpen
    /\ isEditorOpen' = FALSE
    /\ formData' = CreateDefaults
    /\ formOrigin' = 0
    /\ last' = Did("close", formData # InitialForm(editingHost))
    /\ UNCHANGED <<clock, hosts, tabs, editingHost, lines, saves>>
    /\ UNCHANGED chrome

\* The search input: onChange={(e) => setSearchQuery(e.target.value)}
SetSearchQuery(q) ==
    /\ searchQuery' = q
    /\ last' = Did("search", q # "")
    /\ UNCHANGED <<clock, hosts, tabs, isEditorOpen, editingHost, formData, saves>>
    /\ UNCHANGED <<formOrigin, lines>>
    /\ UNCHANGED <<groups, isSidebarOpen, isHomebarOpen>>

HandleToggleGroup(groupId) ==
    /\ groups' = ToggleGroups(groups, groupId)
    /\ last' = Did("toggleGroup", \E k \in DOMAIN groups : groups[k].id = groupId)
    /\ UNCHANGED <<clock, hosts, tabs, isEditorOpen, editingHost, formData, saves>>
    /\ UNCHANGED <<formOrigin, lines>>
    /\ UNCHANGED <<isSidebarOpen, isHomebarOpen, searchQuery>>

\* onToggle={() => setIsSidebarOpen(!isSidebarOpen)}
ToggleSidebar ==
    /\ isSidebarOpen' = ~isSidebarOpen
    /\ last' = Did("toggleSidebar", FALSE)
    /\ UNCHANGED <<clock, hosts, tabs, isEditorOpen, editingHost, formData, saves>>
    /\ UNCHANGED <<formOrigin, lines>>
    /\ UNCHANGED <<groups, isHomebarOpen, searchQuery>>

\* The Homebar's collapse control (setIsHomebarOpen(false)) and the strip
\* shown in its place (setIsHomebarOpen(true)).
ToggleHomebar ==
    /\ isHomebarOpen' = ~isHomebarOpen
    /\ last' = Did("toggleHomebar", FALSE)
    /\ UNCHANGED <<clock, hosts, tabs, isEditorOpen, editingHost, formData, saves>>
    /\ UNCHANGED <<formOrigin, lines>>
    /\ UNCHANGED <<groups, isSidebarOpen, searchQuery>>

-----------------------------------------------------------------------------
(* Specifications.                                                         *)

Connect == \E h \in HostIds : HandleConnect(h)

\* The form submitted while saves are few: at most MaxSaves saves, at most
\* MaxNewHosts of them creating a host.
Submit ==
    /\ Submittable(formData) =>
          /\ saves < MaxSaves
          /\ editingHost = Null => Len(hosts) < Len(INITIAL_HOSTS) + MaxNewHosts
    /\ HandleSubmit

\* The form submitted in a longer series of saves, of either kind.
SubmitSeries ==
    /\ Submittable(formData) => saves < MaxSeries
    /\ HandleSubmit
CloseTab == \E t \in RenderedTabIds : HandleCloseTab(t)
SelectTab == \E t \in RenderedTabIds : HandleSelectTab(t)
EditHost == \E i \in DOMAIN hosts : HandleEditHost(i)
ChangeName == \E v \in NameInputs : HandleChange("name", v, TRUE)
ChangeHostname == \E v \in HostnameInputs : HandleChange("hostname", v, TRUE)
ChangePort ==
    \E typed \in PortInputs :
        HandleChange("port", NumberInputValue(typed), IsValidFloat(typed))

ChangeTags == \E text \in TagsInputs : HandleTagsChange(text)

\* The Group select with the group's name as the option's value.
GroupOptionsByName == {""} \cup {groups[k].name : k \in DOMAIN groups}

\* The Group select: the option None (value "") and one option per group.
GroupOptions == {""} \cup {groups[k].id : k \in DOMAIN groups}
ChangeGroup == \E v \in GroupOptions : HandleChange("groupId", v, TRUE)

\* The search input and the group rows exist in the expanded Sidebar, the
\* group rows in its browse branch.
Search == isSidebarOpen /\ \E q \in SearchInputs : SetSearchQuery(q)
ToggleGroup ==
    /\ isSidebarOpen
    /\ searchQuery = ""
    /\ \E k \in DOMAIN groups : HandleToggleGroup(groups[k].id)

Next ==
    \/ Tick
    \/ Connect
    \/ CloseTab
    \/ SelectTab
    \/ HandleNewHost
    \/ EditHost
    \/ ChangeName
    \/ ChangeHostname
    \/ ChangePort
    \/ ChangeTags
    \/ ChangeGroup
    \/ Submit
    \/ SubmitSeries
    \/ OnClose
    \/ Search
    \/ ToggleGroup
    \/ ToggleSidebar
    \/ ToggleHomebar

Spec == Init /\ [][Next]_vars

\* The tab lifecycle alone: connect, closeTab, selectTab and the clock.
NextTabs ==
    \/ Tick
    \/ Connect
    \/ CloseTab
    \/ SelectTab

SpecTabs == Init /\ [][NextTabs]_vars

\* The Host Editor driven with the pointer: its overlay (fixed inset-0)
\* covers the page, so while it is open only its own controls are operated,
\* and it is opened only while it is closed.
OpenNewHost == ~isEditorOpen /\ HandleNewHost
OpenEditHost == ~isEditorOpen /\ EditHost

\* ... with the Label and Hostname / IP fields edited.
NextForm ==
    \/ Tick
    \/ OpenNewHost
    \/ OpenEditHost
    \/ ChangeName
    \/ ChangeHostname
    \/ Submit
    \/ OnClose

SpecForm == Init /\ [][NextForm]_vars

\* ... with the Port field edited.
NextPort ==
    \/ OpenNewHost
    \/ OpenEditHost
    \/ ChangePort
    \/ Submit
    \/ OnClose

SpecPort == Init /\ [][NextPort]_vars

\* ... with the Tags field edited.
NextTags ==
    \/ OpenNewHost
    \/ OpenEditHost
    \/ ChangeTags
    \/ Submit
    \/ OnClose

SpecTags == Init /\ [][NextTags]_vars

\* The Sidebar searched, with tags given to hosts in the editor; the Sidebar
\* is behind the editor's overlay while the editor is open.  The groups stay
\* as seeded: two expanded, one collapsed.
NextSearch ==
    \/ OpenEditHost
    \/ ChangeTags
    \/ Submit
    \/ OnClose
    \/ ~isEditorOpen /\ Search

SpecSearch == Init /\ [][NextSearch]_vars

\* The Sidebar browsed, with hosts created in the editor, in a group or in
\* none.
NextBrowse ==
    \/ OpenNewHost
    \/ ChangeName
    \/ ChangeHostname
    \/ ChangeGroup
    \/ Submit
    \/ OnClose
    \/ ~isEditorOpen /\ Search
    \/ ~isEditorOpen /\ ToggleGroup
    \/ ~isEditorOpen /\ ToggleSidebar

SpecBrowse == Init /\ [][NextBrowse]_vars

\* Sessions opened, selected and closed while hosts are created and saved
\* from the editor: the fields are typed when a host is created, a host that
\* is edited is saved as it is, and the editor is left by saving.  The clock
\* stands still: every id generated carries the same reading.
NextSessions ==
    \/ OpenNewHost
    \/ OpenEditHost
    \/ editingHost = Null /\ ChangeName
    \/ editingHost = Null /\ ChangeHostname
    \/ Submit
    \/ ~isEditorOpen /\ Connect
    \/ ~isEditorOpen /\ CloseTab
    \/ ~isEditorOpen /\ SelectTab

SpecSessions == Init /\ [][NextSessions]_vars

\* The Homebar shown and hidden over the tab lifecycle.
NextHomebar ==
    \/ Tick
    \/ Connect
    \/ CloseTab
    \/ SelectTab
    \/ ToggleHomebar

SpecHomebar == Init /\ [][NextHomebar]_vars

\* The Host Editor driven with the keyboard as well: focus is not trapped in
\* the editor, so the New Host and edit buttons behind the overlay can be
\* activated while it is open.
NextRetarget ==
    \/ HandleNewHost
    \/ EditHost
    \/ ChangeName
    \/ ChangeHostname
    \/ Submit
    \/ OnClose

SpecRetarget == Init /\ [][NextRetarget]_vars

\* Hosts moved between groups in the editor, new ones and seeded ones, while
\* groups are opened and closed in the Sidebar.  Label and Hostname / IP are
\* typed when a host is created.
NextGroups ==
    \/ OpenNewHost
    \/ OpenEditHost
    \/ editingHost = Null /\ ChangeName
    \/ editingHost = Null /\ ChangeHostname
    \/ ChangeGroup
    \/ Submit
    \/ OnClose
    \/ ~isEditorOpen /\ ToggleGroup

SpecGroups == Init /\ [][NextGroups]_vars

\* The Terminal View over the tab lifecycle, with the Sidebar and the
\* Homebar shown and hidden; time passes between the events.
NextTerminal ==
    \/ Tick
    \/ Connect
    \/ CloseTab
    \/ SelectTab
    \/ ToggleSidebar
    \/ ToggleHomebar

SpecTerminal == Init /\ [][NextTerminal]_vars

\* Hosts created, connected and edited in a series of saves while the clock
\* stands still (every id generated carries the same reading).  The fields
\* are typed when a host is created, a host that is edited is saved as it
\* is, and the editor is left by saving.
NextStatus ==
    \/ OpenNewHost
    \/ OpenEditHost
    \/ editingHost = Null /\ ChangeName
    \/ editingHost = Null /\ ChangeHostname
    \/ SubmitSeries
    \/ ~isEditorOpen /\ Connect
    \/ ~isEditorOpen /\ CloseTab

SpecStatus == Init /\ [][NextStatus]_vars

-----------------------------------------------------------------------------
(* Claims about the tab lifecycle (checked under SpecTabs).                *)

ActiveTabs == {i \in DOMAIN tabs : tabs[i].isActive}

\* A tab without its isActive flag, and a tab list without position k.
Slot(t) == [id |-> t.id, hostId |-> t.hostId]
Slots(ts) == [i \in DOMAIN ts |-> Slot(ts[i])]
Without(ts, k) == SubSeq(ts, 1, k - 1) \o SubSeq(ts, k + 1, Len(ts))

\* C1: after every connect, closeTab or selectTab call, the tab list is empty
\* or exactly one tab has isActive = true.
C1_SingleActiveTab == tabs = <<>> \/ Cardinality(ActiveTabs) = 1

\* C2: closeTab(tabId) removes exactly the matching tab and keeps the order of
\* the others; if the removed tab was active and tabs remain, the last
\* remaining tab becomes the active one; if it was not active, the active tab
\* is unchanged.
C2_CloseTabContract ==
    [][\A k \in DOMAIN tabs :
          HandleCloseTab(tabs[k].id) =>
              /\ Slots(tabs') = Without(Slots(tabs), k)
              /\ (tabs[k].isActive /\ Len(tabs) > 1) =>
                     {i \in DOMAIN tabs' : tabs'[i].isActive} = {Len(tabs')}
              /\ ~tabs[k].isActive =>
                     [i \in DOMAIN tabs' |-> tabs'[i].isActive]
                         = Without([i \in DOMAIN tabs |-> tabs[i].isActive], k)
      ]_vars

\* C3: connect(hostId) when no open tab targets hostId appends exactly one
\* tab at the end, targeting hostId and active, and deactivates every
\* previously open tab while keeping their ids, hostIds and order.
C3_ConnectNewAppends ==
    [][\A h \in HostIds :
          (HandleConnect(h) /\ \A i \in DOMAIN tabs : tabs[i].hostId # h) =>
              /\ Len(tabs') = Len(tabs) + 1
              /\ tabs'[Len(tabs')].hostId = h
              /\ tabs'[Len(tabs')].isActive
              /\ \A i \in DOMAIN tabs :
                     tabs'[i] = [tabs[i] EXCEPT !.isActive = FALSE]
      ]_vars

\* A connect has just opened a tab behind a tab that was open before.
C3_Witness ==
    /\ last = Did("connect", FALSE)
    /\ Len(tabs) >= 2
    /\ ActiveTabs = {Len(tabs)}

\* C4: connect(hostId) when a tab already targets hostId creates no tab: the
\* list keeps its length, ids, hostIds and order, the existing tab for hostId
\* becomes the sole active tab, and a second connect(hostId) changes nothing.
C4_ConnectExistingContract ==
    [][\A h \in HostIds :
          (HandleConnect(h) /\ \E i \in DOMAIN tabs : tabs[i].hostId = h) =>
              /\ Slots(tabs') = Slots(tabs)
              /\ \A i \in DOMAIN tabs : tabs'[i].isActive <=> (tabs[i].hostId = h)
              /\ ConnectTabs(tabs', h, clock) = tabs'
      ]_vars

\* C5: connect(hostId) sets the status of the host with that id to connected,
\* whatever it was, and leaves every other host record unchanged.
C5_ConnectSetsStatus ==
    [][\A h \in HostIds :
          HandleConnect(h) =>
              /\ Len(hosts') = Len(hosts)
              /\ \A i \in DOMAIN hosts :
                     hosts'[i] = IF hosts[i].id = h
                                 THEN [hosts[i] EXCEPT !.status = "connected"]
                                 ELSE hosts[i]
      ]_vars

\* A connect has turned a host seeded with status error into a connected one,
\* next to a host that is still idle.
C5_Witness ==
    /\ last.op = "connect"
    /\ \E i \in DOMAIN hosts :
           INITIAL_HOSTS[i].status = "error" /\ hosts[i].status = "connected"
    /\ \E i \in DOMAIN hosts : hosts[i].status = "idle"

\* C6: closing the only open tab yields an empty tab list with no active tab
\* and no active host; and in every reachable state the empty-state panel is
\* shown exactly when the tab list is empty.
C6_EmptyStateIffNoTabs ==
    /\ [][\A t \in TabIds :
             (HandleCloseTab(t) /\ Len(tabs) = 1) =>
                 (tabs' = <<>> /\ activeTab' = 0 /\ activeHost' = 0)]_vars
    /\ [](ShowsEmptyState <=> tabs = <<>>)

-----------------------------------------------------------------------------
(* Claims about the Host Editor and the save operation (checked under      *)
(* SpecForm, SpecPort and SpecRetarget).                                   *)

\* C7: saving with an id matching an existing host replaces that host in
\* place (length, position and all other hosts unchanged, id preserved);
\* saving with no matching id appends exactly one host at the end, with status
\* idle and a newly generated id, whatever id or status the form carried.
C7_SaveHostBranching ==
    [][(HandleSubmit /\ Submittable(formData)) =>
          IF formData.id \in HostIds
          THEN /\ Len(hosts') = Len(hosts)
               /\ \A i \in DOMAIN hosts :
                      hosts'[i] = IF hosts[i].id = formData.id THEN formData ELSE hosts[i]
          ELSE /\ Len(hosts') = Len(hosts) + 1
               /\ SubSeq(hosts', 1, Len(hosts)) = hosts
               /\ hosts'[Len(hosts')].status = "idle"
               /\ hosts'[Len(hosts')].id \notin HostIds \cup {formData.id}
               /\ [hosts'[Len(hosts')] EXCEPT !.id = formData.id,
                                               !.status = formData.status] = formData
      ]_vars

\* C8: submitting the form while name or hostname is empty is a no-op: save
\* is not invoked, the host list is unchanged and the editor stays open.
C8_EmptySubmitIsNoOp ==
    [][(HandleSubmit /\ (formData.name = "" \/ formData.hostname = "")) =>
          /\ hosts' = hosts
          /\ saves' = saves
          /\ isEditorOpen'
          /\ formData' = formData
          /\ editingHost' = editingHost
      ]_vars

\* In edit mode, a submit with the name cleared (and a hostname given) has
\* just been swallowed.
C8_Witness ==
    /\ last = Did("submit", FALSE)
    /\ isEditorOpen
    /\ editingHost # Null
    /\ formData.name = ""
    /\ formData.hostname # ""

\* C9: when the port field is edited to a text that does not parse as a
\* number (the empty string included), the form's port is 22; and a save
\* writes the form's port to the host it saves.
C9_PortCoercion ==
    [][/\ \A typed \in PortInputs :
             ( /\ last'.op = "change"
               /\ HandleChange("port", NumberInputValue(typed), IsValidFloat(typed))
               /\ (~IsValidFloat(typed) \/ ParseInt(NumberInputValue(typed)) = <<>>) )
             => formData'.port = 22
       /\ (HandleSubmit /\ Submittable(formData)) =>
             \A i \in DOMAIN hosts' :
                 (i \notin DOMAIN hosts \/ hosts'[i] # hosts[i])
                     => hosts'[i].port = formData.port
      ]_vars

\* While a host with another port is edited, a text the port field rejects
\* has just set the form's port to 22.
C9_Witness ==
    /\ last = Did("change", FALSE)
    /\ isEditorOpen
    /\ editingHost # Null
    /\ editingHost.port # 22
    /\ formData.id = editingHost.id
    /\ formData.port = 22

\* C10: after any sequence of port-field edits and saves, every host in the
\* host list has a port that is a positive integer.
C10_PortsPositive == \A i \in DOMAIN hosts : hosts[i].port > 0

-----------------------------------------------------------------------------
(* Claims about the Tags field (checked under SpecTags).                   *)

\* The positions of the commas of a text, with the positions just before
\* its first and just after its last character.
Fences(text) ==
    {0, Len(text) + 1} \cup {i \in 1..Len(text) : SubSeq(text, i, i) = ","}

\* The positions of the characters of a text that are not white space.
Inked(text) == {i \in 1..Len(text) : SubSeq(text, i, i) \notin WhiteSpace}

\* The characters strictly between the fence a and the next fence.
Stretch(text, a) ==
    LET b == CHOOSE f \in Fences(text) :
                 f > a /\ \A g \in Fences(text) : g > a => f <= g
    IN  (a + 1)..(b - 1)

\* The fences that open a segment with a character other than white space.
Openers(text) ==
    {a \in Fences(text) \ {Len(text) + 1} : Stretch(text, a) \cap Inked(text) # {}}

\* The segment a fence opens, from its first to its last character that is
\* not white space.
Trimmed(text, a) ==
    LET ink == Stretch(text, a) \cap Inked(text)
        lo == CHOOSE i \in ink : \A j \in ink : i <= j
        hi == CHOOSE i \in ink : \A j \in ink : i >= j
    IN  SubSeq(text, lo, hi)

\* C11: every change of the tags field replaces the form's tags wholesale
\* with the comma-separated segments of the full text, each trimmed, empty
\* segments dropped, original order kept; so the list never holds an empty
\* string or a string that starts or ends with white space, and
\* "prod, web,  linux ," gives [prod, web, linux].
C11_TagParsing ==
    [][\A text \in TagsInputs :
          (last'.op = "tags" /\ HandleTagsChange(text)) =>
              LET tags == formData'.tags IN
              /\ Len(tags) = Cardinality(Openers(text))
              /\ \A a \in Openers(text) :
                     tags[1 + Cardinality({b \in Openers(text) : b < a})]
                         = Trimmed(text, a)
              /\ \A n \in DOMAIN tags :
                     /\ tags[n] # ""
                     /\ Head(tags[n]) \notin WhiteSpace
                     /\ SubSeq(tags[n], Len(tags[n]), Len(tags[n])) \notin WhiteSpace
              /\ text = "prod, web,  linux ," => tags = <<"prod", "web", "linux">>
              /\ [formData' EXCEPT !.tags = formData.tags] = formData
      ]_vars

\* Over tags entered before, the tags field has just been edited to a text
\* with padded and empty segments, and three tags came out of it.
C11_Witness ==
    /\ last = Did("tags", TRUE)
    /\ isEditorOpen
    /\ Len(formData.tags) = 3
    /\ \E i \in DOMAIN hosts :
           /\ hosts[i].tags # <<>>
           /\ hosts[i].tags # formData.tags
           /\ hosts[i].id = formData.id

-----------------------------------------------------------------------------
(* Claims about the Sidebar (checked under SpecSearch and SpecBrowse).     *)

\* The pairs of an upper-case letter and its lower-case letter.
CasePairs ==
    {<<SubSeq(UpperCase, i, i), SubSeq(LowerCase, i, i)>> : i \in 1..26}

\* Two characters that are the same letter, in either case.
SameLetter(a, b) == a = b \/ <<a, b>> \in CasePairs \/ <<b, a>> \in CasePairs

\* q occurs in s at some offset, letter by letter, whatever the case.
ContainsIgnoringCase(s, q) ==
    \E off \in 0..(Len(s) - Len(q)) :
        \A k \in 1..Len(q) :
            SameLetter(SubSeq(s, off + k, off + k), SubSeq(q, k, k))

\* The positions of the hosts the query matches by name, hostname or a tag.
Hits(q) ==
    {i \in DOMAIN hosts :
        \/ ContainsIgnoringCase(hosts[i].name, q)
        \/ ContainsIgnoringCase(hosts[i].hostname, q)
        \/ \E n \in DOMAIN hosts[i].tags : ContainsIgnoringCase(hosts[i].tags[n], q)}

\* C12: with a non-empty query the expanded Sidebar lists exactly the hosts
\* whose name, hostname or at least one tag contains the query as a
\* case-insensitive substring, each once, whatever the host's group and
\* whatever groups are expanded; when no host matches, the 'No hosts found'
\* placeholder is shown.
C12_SearchListsMatches ==
    (isSidebarOpen /\ searchQuery # "") =>
        LET list == SearchList
            hits == Hits(searchQuery)
        IN  /\ {list[n] : n \in DOMAIN list} = hits
            /\ \A m, n \in DOMAIN list : m < n => list[m] < list[n]
            /\ ShowsNoHostsFound <=> hits = {}
            /\ UngroupedList = <<>>
            /\ \A k \in DOMAIN groups : GroupList(k) = <<>>

\* A query lists a host of a collapsed group by its name and another host
\* by a tag only, a tag written in another case than the query.
C12_Witness ==
    /\ isSidebarOpen
    /\ searchQuery = "lab"
    /\ \E n \in DOMAIN SearchList :
           /\ ~Includes(hosts[SearchList[n]].name, "lab")
           /\ \E t \in DOMAIN hosts[SearchList[n]].tags :
                  hosts[SearchList[n]].tags[t] = "Lab"
    /\ \E n \in DOMAIN SearchList, k \in DOMAIN groups :
           /\ Includes(hosts[SearchList[n]].name, "lab")
           /\ hosts[SearchList[n]].groupId = groups[k].id
           /\ ~groups[k].isExpanded

\* The positions a rendered list holds.
Listed(list) == {list[n] : n \in DOMAIN list}

\* A host record whose groupId is the id of no group.
Stray == [CreateDefaults EXCEPT !.id = "h0", !.name = "stray",
                               !.hostname = "10.9.9.9", !.groupId = "g9"]

\* C13: whenever the search query is empty, every host with no groupId
\* (absent or the empty string, a host just created with group None
\* included) is listed in the ungrouped section of the expanded Sidebar,
\* whatever groups have been toggled; and a host whose groupId matches no
\* group is listed neither under a group nor in the ungrouped section.
C13_UngroupedBucket ==
    /\ (isSidebarOpen /\ searchQuery = "") =>
           \A i \in DOMAIN hosts :
               hosts[i].groupId \in {Undefined, ""} =>
                   Cardinality({n \in DOMAIN UngroupedList : UngroupedList[n] = i}) = 1
    /\ LET hs == Append(hosts, Stray)
           known == {Undefined, ""} \cup {groups[k].id : k \in DOMAIN groups}
       IN  \A i \in DOMAIN hs :
               hs[i].groupId \notin known =>
                   /\ i \notin Listed(UngroupedHosts(hs))
                   /\ \A k \in DOMAIN groups : i \notin Listed(GroupHosts(hs, groups[k]))

\* With the seeded groups toggled, a host created with group None is listed
\* in the ungrouped section behind the seeded ungrouped host.
C13_Witness ==
    /\ isSidebarOpen
    /\ searchQuery = ""
    /\ \A k \in DOMAIN groups : groups[k].isExpanded # INITIAL_GROUPS[k].isExpanded
    /\ Len(hosts) > Len(INITIAL_HOSTS)
    /\ hosts[Len(hosts)].groupId = ""
    /\ Len(UngroupedList) = 2
    /\ UngroupedList[2] = Len(hosts)

-----------------------------------------------------------------------------
(* Claims about hosts and sessions together (checked under SpecSessions).  *)

\* C14: from the seeded state (5 hosts, one active tab on h1), creating a
\* host with name edge-01 and hostname 10.0.3.5 through new-host and save
\* yields 6 hosts, and connecting to the resulting host right after yields 6
\* hosts and 2 tabs: the first tab (h1) inactive, the second active and
\* targeting the new host, whose status is connected.
C14_CreateThenConnect ==
    [][/\ ( /\ hosts = INITIAL_HOSTS
            /\ tabs = INITIAL_TABS
            /\ editingHost = Null
            /\ formData.name = "edge-01"
            /\ formData.hostname = "10.0.3.5"
            /\ HandleSubmit )
          => /\ Len(hosts') = 6
             /\ SubSeq(hosts', 1, 5) = INITIAL_HOSTS
             /\ hosts'[6].name = "edge-01"
             /\ hosts'[6].hostname = "10.0.3.5"
             /\ hosts'[6].id \notin HostIds
             /\ tabs' = INITIAL_TABS
       /\ ( /\ last = Did("submit", TRUE)
            /\ Len(hosts) = 6
            /\ SubSeq(hosts, 1, 5) = INITIAL_HOSTS
            /\ hosts[6].name = "edge-01"
            /\ hosts[6].hostname = "10.0.3.5"
            /\ tabs = INITIAL_TABS
            /\ HandleConnect(hosts[6].id) )
          => /\ Len(hosts') = 6
             /\ Len(tabs') = 2
             /\ tabs'[1] = [id |-> "t1", hostId |-> "h1", isActive |-> FALSE]
             /\ tabs'[2].isActive
             /\ tabs'[2].hostId = hosts'[6].id
             /\ hosts'[6].id = hosts[6].id
             /\ hosts'[6].status = "connected"
             /\ SubSeq(hosts', 1, 5) = INITIAL_HOSTS
      ]_vars

\* The created host has just been connected: it is the sixth host, and the
\* second of two tabs is its session.
C14_Witness ==
    /\ last = Did("connect", FALSE)
    /\ saves = 1
    /\ Len(hosts) = 6
    /\ hosts[6].name = "edge-01"
    /\ hosts[6].status = "connected"
    /\ Len(tabs) = 2
    /\ tabs[2].hostId = hosts[6].id
    /\ tabs[1] = [id |-> "t1", hostId |-> "h1", isActive |-> FALSE]

\* C15: in every state reached through connect from a listed host, closeTab,
\* selectTab and saveHost in create and in edit mode, every tab's hostId is
\* the id of a host in the host list, so the Tabs Strip skips no tab.
C15_TabsReferenceHosts ==
    /\ \A t \in DOMAIN tabs : \E i \in DOMAIN hosts : hosts[i].id = tabs[t].hostId
    /\ RenderedTabIds = TabIds

\* A host that has a session has just been saved in edit mode, next to a
\* second session.
C15_Witness ==
    /\ last = Did("submit", TRUE)
    /\ editingHost # Null
    /\ Len(tabs) >= 2
    /\ \E t \in DOMAIN tabs : tabs[t].hostId = editingHost.id

\* C16: in every reachable state the ids of the open tabs are pairwise
\* distinct and the ids of the hosts are pairwise distinct, also when two
\* connect calls, or two create-saves, read the same value of the clock.
C16_UniqueIds ==
    /\ \A i, j \in DOMAIN tabs : tabs[i].id = tabs[j].id => i = j
    /\ \A i, j \in DOMAIN hosts : hosts[i].id = hosts[j].id => i = j

\* An id that no tab carries.
NoSuchTab == "t0"

\* C17: selectTab(tabId) makes the tab matching tabId the sole active tab,
\* or every tab inactive when no open tab matches; either way the tab
\* list's ids, hostIds, order and length and all hosts are unchanged.
C17_SelectTabContract ==
    [][\A t \in TabIds \cup {NoSuchTab} :
          HandleSelectTab(t) =>
              /\ Slots(tabs') = Slots(tabs)
              /\ hosts' = hosts
              /\ IF t \in TabIds
                 THEN /\ Cardinality({i \in DOMAIN tabs' : tabs'[i].isActive}) = 1
                      /\ \A i \in DOMAIN tabs' : tabs'[i].isActive => tabs'[i].id = t
                 ELSE \A i \in DOMAIN tabs' : ~tabs'[i].isActive
      ]_vars

-----------------------------------------------------------------------------
(* Claims about the Homebar (checked under SpecHomebar).                   *)

HostStatuses == {"idle", "connected", "error"}

\* C18: in the rendered Homebar, Connect is enabled iff an active host exists
\* and its status is not connected, Disconnect iff an active host exists and
\* its status is connected, Reconnect and Edit iff an active host exists;
\* so Connect and Disconnect are never both enabled, and with no active host
\* all four are disabled.  The same holds of the buttons for a host of any
\* status given as the active host.
C18_HomebarEnablement ==
    /\ isHomebarOpen =>
           /\ ConnectEnabled <=>
                  (activeHost # 0 /\ hosts[activeHost].status # "connected")
           /\ DisconnectEnabled <=>
                  (activeHost # 0 /\ hosts[activeHost].status = "connected")
           /\ ReconnectEnabled <=> activeHost # 0
           /\ EditEnabled <=> activeHost # 0
           /\ ~(ConnectEnabled /\ DisconnectEnabled)
           /\ activeHost = 0 =>
                  ~(ConnectEnabled \/ DisconnectEnabled \/ ReconnectEnabled \/ EditEnabled)
    /\ \A i \in DOMAIN hosts, st \in HostStatuses :
           LET h == [hosts[i] EXCEPT !.status = st] IN
           /\ ~ConnectDisabled(h) <=> st # "connected"
           /\ ~DisconnectDisabled(h) <=> st = "connected"
           /\ ~ReconnectDisabled(h)
           /\ ~EditDisabled(h)

\* A tab other than the seeded one is active, its host connected: of Connect
\* and Disconnect only Disconnect is enabled.
C18_Witness ==
    /\ isHomebarOpen
    /\ activeHost > 1
    /\ hosts[activeHost].status = "connected"
    /\ INITIAL_HOSTS[activeHost].status # "connected"
    /\ DisconnectEnabled
    /\ ~ConnectEnabled
    /\ ReconnectEnabled
    /\ EditEnabled

-----------------------------------------------------------------------------
(* Further claims about the tab lifecycle (checked under SpecTabs) and     *)
(* about the editor's lifecycle (checked under SpecForm).                  *)

\* C19: after any sequence of connect, closeTab and selectTab calls no two
\* open tabs have the same hostId; a tab is created only by a connect on a
\* host that has no tab, and a tab disappears only by a closeTab.
C19_OneTabPerHost ==
    /\ [](\A i, j \in DOMAIN tabs : tabs[i].hostId = tabs[j].hostId => i = j)
    /\ [][/\ Len(tabs') > Len(tabs) =>
                \E h \in HostIds :
                    /\ HandleConnect(h)
                    /\ \A i \in DOMAIN tabs : tabs[i].hostId # h
                    /\ tabs' = Append(SubSeq(tabs', 1, Len(tabs)), tabs'[Len(tabs')])
                    /\ Slots(SubSeq(tabs', 1, Len(tabs))) = Slots(tabs)
                    /\ tabs'[Len(tabs')].hostId = h
          /\ (\E i \in DOMAIN tabs : \A j \in DOMAIN tabs' : Slot(tabs'[j]) # Slot(tabs[i]))
                => \E t \in TabIds : HandleCloseTab(t)
          /\ Len(tabs') < Len(tabs) => \E t \in TabIds : HandleCloseTab(t)
         ]_vars

\* After a tab was closed, a connect on a host that has a tab has just
\* switched to that tab, among three tabs of three hosts.
C19_Witness ==
    /\ last = Did("connect", TRUE)
    /\ Len(tabs) = 3
    /\ Cardinality({tabs[i].hostId : i \in DOMAIN tabs}) = 3
    /\ \A i \in DOMAIN tabs : tabs[i].hostId # "h1"

\* C20: whenever the Host Editor is closed (after a save, after Cancel or the
\* close control), the edit target held by the root is none.
C20_ClosedEditorHasNoTarget == ~isEditorOpen => editingHost = Null

-----------------------------------------------------------------------------
(* Claims about cancelling the editor (checked under SpecForm).            *)

\* C21: typing in the editor's fields and leaving it by Cancel or the close
\* control saves nothing: hosts, groups and tabs stay as they were when the
\* editor was opened and the editor is closed; the next New Host then
\* starts from the create defaults (name and hostname empty, user root,
\* port 22, no group, no tags).
C21_CancelDiscards ==
    [][/\ (last'.op \in {"change", "close"} /\ (ChangeName \/ ChangeHostname \/ OnClose)) =>
            /\ hosts' = hosts
            /\ groups' = groups
            /\ tabs' = tabs
            /\ saves' = saves
       /\ (last'.op = "close" /\ OnClose) => ~isEditorOpen'
       /\ (last'.op = "newHost" /\ OpenNewHost) =>
            /\ formData'.name = ""
            /\ formData'.hostname = ""
            /\ formData'.user = "root"
            /\ formData'.port = 22
            /\ formData'.groupId = ""
            /\ formData'.tags = <<>>]_vars

\* The editor was left by Cancel or the close control with edits typed in.
C21_Witness ==
    /\ last = Did("close", TRUE)
    /\ ~isEditorOpen
    /\ hosts = INITIAL_HOSTS
    /\ saves = 0

-----------------------------------------------------------------------------
(* Claims about host statuses (checked under SpecSessions).                *)

\* The hosts seeded with status error, by position.
SeededInError == {i \in DOMAIN INITIAL_HOSTS : INITIAL_HOSTS[i].status = "error"}

\* C22: no step gives a host the status error: a host that has it after a
\* step had it before the step, and is one of the hosts seeded with it.
C22_NoTransitionIntoError ==
    [][\A i \in DOMAIN hosts' :
          hosts'[i].status = "error" =>
              /\ i \in SeededInError
              /\ hosts[i].status = "error"
              /\ hosts'[i].id = hosts[i].id]_vars

\* The host seeded in error was edited and saved with other hosts connected
\* and created meanwhile, and is still in error.
C22_Witness ==
    /\ last = Did("submit", TRUE)
    /\ editingHost # Null
    /\ editingHost.id = "h4"
    /\ hosts[4].status = "error"
    /\ \E i \in DOMAIN hosts : i # 1 /\ hosts[i].status = "connected"

-----------------------------------------------------------------------------
(* Claims about groups (checked under SpecGroups).                         *)

\* The ids and names of a group list, in order.
Naming(gs) == [k \in DOMAIN gs |-> <<gs[k].id, gs[k].name>>]

\* C23: in every reachable state each host's groupId is absent, empty or the
\* id of an existing group, and the groups are the seeded ones with their
\* ids and names; so each host has its place in the browse listing, under
\* exactly one group or in the ungrouped section.
C23_GroupReferencesValid ==
    /\ Naming(groups) = Naming(INITIAL_GROUPS)
    /\ \A i \in DOMAIN hosts :
          /\ hosts[i].groupId \in {Undefined, ""} \cup {groups[k].id : k \in DOMAIN groups}
          /\ Cardinality({k \in DOMAIN groups : i \in Listed(GroupHosts(hosts, groups[k]))})
                + (IF i \in Listed(UngroupedHosts(hosts)) THEN 1 ELSE 0) = 1

\* The seeded host without a group was given one in the editor and saved,
\* after every group had been toggled.
C23_Witness ==
    /\ last = Did("submit", TRUE)
    /\ INITIAL_HOSTS[5].groupId = Undefined
    /\ hosts[5].groupId = "g3"
    /\ \A k \in DOMAIN groups : groups[k].isExpanded # INITIAL_GROUPS[k].isExpanded

\* An id that no group has.
NoSuchGroup == "g0"

\* C24: toggling a group flips isExpanded of the group with that id and
\* leaves everything else as it was: the other groups, every group's id and
\* name, the order of the groups, the hosts and the tabs.  With an id that no
\* group has the group list stays as it is, and toggling the same group
\* twice gives back the group list toggled.
C24_ToggleGroupContract ==
    [][/\ \A k \in DOMAIN groups :
            (last'.op = "toggleGroup" /\ HandleToggleGroup(groups[k].id)) =>
                /\ DOMAIN groups' = DOMAIN groups
                /\ \A j \in DOMAIN groups :
                      /\ groups'[j].id = groups[j].id
                      /\ groups'[j].name = groups[j].name
                      /\ groups'[j].isExpanded = IF j = k THEN ~groups[j].isExpanded
                                                         ELSE groups[j].isExpanded
                /\ hosts' = hosts
                /\ tabs' = tabs
                /\ ToggleGroups(groups', groups[k].id) = groups
       /\ ToggleGroups(groups, NoSuchGroup) = groups]_vars

\* The collapsed group was expanded after another had been collapsed, with a
\* host saved before.
C24_Witness ==
    /\ last = Did("toggleGroup", TRUE)
    /\ groups[3].isExpanded
    /\ ~groups[1].isExpanded
    /\ groups[2].isExpanded
    /\ hosts # INITIAL_HOSTS

-----------------------------------------------------------------------------
(* Claims about the Terminal View (checked under SpecTerminal).            *)

\* The host the Terminal View is bound to, with its fields; Null when the
\* empty-state panel is shown instead.
BoundHost == IF activeHost = 0 THEN Null ELSE hosts[activeHost]

\* C25: the Terminal View's line buffer changes only in a step that changes
\* the bound host (another active host, or other fields of the active
\* host): a step that leaves the active host and its fields as they were
\* (a connect to the active and connected host, a select of the active tab,
\* the close of another tab, a visibility toggle) leaves the buffer as it
\* was.
C25_RebuildOnlyOnHostChange ==
    [][BoundHost' = BoundHost => lines' = lines]_vars

-----------------------------------------------------------------------------
(* Claims about the status of hosts with sessions (checked under           *)
(* SpecStatus and SpecHomebar).                                            *)

\* The hosts a tab targets: those whose id is the tab's hostId.
Targets(t) == {i \in DOMAIN hosts : hosts[i].id = tabs[t].hostId}

\* C26: in every reachable state every host targeted by an open tab has
\* status connected.
C26_TabbedHostsConnected ==
    \A t \in DOMAIN tabs : \A i \in Targets(t) : hosts[i].status = "connected"

\* C27: in every reachable state the Homebar's Connect is disabled, and in
\* the rendered Homebar Disconnect is enabled exactly when the tab list is
\* not empty.
C27_ConnectNeverDisconnectWithTabs ==
    /\ ~ConnectEnabled
    /\ isHomebarOpen => (DisconnectEnabled <=> Len(tabs) > 0)

\* C28: a host whose status is connected keeps it in every step; a closeTab
\* or selectTab step leaves the whole host list as it was, so a host stays
\* connected after its tab is closed.
C28_ConnectedIsStable ==
    [][/\ \A i \in DOMAIN hosts :
            hosts[i].status = "connected" =>
                i \in DOMAIN hosts' /\ hosts'[i].status = "connected"
       /\ (last'.op \in {"closeTab", "selectTab"} /\ (CloseTab \/ SelectTab)) =>
            hosts' = hosts]_vars

====
